---- MODULE Spec2Model ----
(***************************************************************************)
(* Model of the toy_atm accounting core: Amount (common.rs), the ledger    *)
(* entry CreditDebitState, ClientBalance and the Atm registry (atm.rs).    *)
(*                                                                         *)
(* An f64 is modelled as a record [cls, v]:                                *)
(*   cls = "fin"  a finite value, v counts steps of 1/(SubUnits * 1e4),    *)
(*                so an Amount of one precision step (0.0001) has          *)
(*                v = SubUnits and raw inputs can be finer than an Amount; *)
(*   cls = "inf"  +infinity (v = 1) or -infinity (v = -1);                 *)
(*   cls = "nan"  NaN (v = 0).                                             *)
(* Finite values stay in the range where f64 represents every multiple of  *)
(* 0.0001 exactly after rounding; -0.0 is identified with 0.0 (they        *)
(* compare equal in every test the code makes).                            *)
(***************************************************************************)
EXTENDS Integers, FiniteSets, Sequences, TLC

\* ---------------------------------------------------------------- bounds
\* the largest finite amount of a record, in steps of 0.0001
MaxAmount == 2
\* how many raw f64 steps make one step of 0.0001
SubUnits == 10
\* the length of the transaction stream
MaxSteps == 5

\* the identifiers the stream's records carry (opaque: only equality is used)
ClientIDs == {1}
TransactionIDs == {1, 2}

\* ---------------------------------------------------------------- types
\* The records of the model. `kind` is the variant of a Rust enum. Every record
\* below is built with its fields in the order of these definitions.
F64Type == [cls : {"fin", "inf", "nan"}, v : Int]
NoAmountType == [cls : {"none"}, v : {0}]
TransactionTypeType ==
    [kind : {"Deposit", "Withdrawal"}, amount : F64Type]
        \cup [kind : {"Dispute", "Resolve", "Chargeback"}, amount : NoAmountType]
CreditDebitStateType ==
    [kind : {"Deposit", "Withdrawal"}, amount : F64Type,
     state : {"Disputed", "Resolved", "Chargeback"}]
TransactionRecordType ==
    [client_id : ClientIDs, transaction_id : TransactionIDs,
     transaction_type : TransactionTypeType]
HandledTransactionResultType ==
    [kind : {"Ok", "IgnoredTransactionReason", "InvalidClientBalance"},
     transaction_id : TransactionIDs \cup {0}, reason : STRING]

\* ---------------------------------------------------------------- f64
Fin(n) == [cls |-> "fin", v |-> n]
PosInf == [cls |-> "inf", v |-> 1]
NegInf == [cls |-> "inf", v |-> -1]
NaN == [cls |-> "nan", v |-> 0]
NoAmount == [cls |-> "none", v |-> 0]

\* IEEE-754 addition on the modelled values
F64Add(a, b) ==
    IF a.cls = "nan" \/ b.cls = "nan" THEN NaN
    ELSE IF a.cls = "inf" /\ b.cls = "inf" THEN (IF a.v = b.v THEN a ELSE NaN)
    ELSE IF a.cls = "inf" THEN a
    ELSE IF b.cls = "inf" THEN b
    ELSE Fin(a.v + b.v)

F64Neg(a) == IF a.cls = "nan" THEN NaN ELSE [cls |-> a.cls, v |-> -a.v]

F64Sub(a, b) == F64Add(a, F64Neg(b))

\* f64 PartialEq: NaN is equal to nothing, itself included
F64Eq(a, b) == a.cls # "nan" /\ b.cls # "nan" /\ a = b

\* f64 PartialOrd `<`: false as soon as one side is NaN
F64Lt(a, b) ==
    /\ a.cls # "nan"
    /\ b.cls # "nan"
    /\ IF a.cls = "inf" THEN a.v = -1 /\ b # a
       ELSE IF b.cls = "inf" THEN b.v = 1
       ELSE a.v < b.v

\* f64::round of n/d: to the nearest integer, halves away from zero
RoundHalfAway(n, d) ==
    IF n >= 0 THEN (2 * n + d) \div (2 * d) ELSE -((2 * (-n) + d) \div (2 * d))

\* Amount::AMOUNT_PRECISION_EXP: an Amount is a multiple of 1/AMOUNT_PRECISION_EXP
AMOUNT_PRECISION_EXP == 10000

\* ---------------------------------------------------------------- Amount
\* Amount::new: (value * 1e4).round() / 1e4
AmountNew(value) ==
    IF value.cls = "fin" THEN Fin(RoundHalfAway(value.v, SubUnits) * SubUnits)
    ELSE value

\* reversed without the sign change
reversed_keeps_sign(a) == a

reversed(a) == F64Neg(a)
\* is_negative with `<=` for `<`
is_negative_or_zero(a) == F64Lt(a, Fin(0)) \/ F64Eq(a, Fin(0))
is_negative(a) == F64Lt(a, Fin(0))
is_zero(a) == F64Eq(a, Fin(0))
AmountAdd(a, b) == AmountNew(F64Add(a, b))
AmountSub(a, b) == AmountNew(F64Sub(a, b))
AmountEq(a, b) == F64Eq(a, b)
AmountLt(a, b) == F64Lt(a, b)
AmountDefault == Fin(0)

\* ---------------------------------------------------------------- ledger entry
\* the classification with Resolved -> Chargeback allowed
calc_transition_resolved_to_chargeback(from, to) ==
    CASE from = "Disputed" /\ to = "Disputed" -> "NoOperation"
      [] from = "Disputed" /\ to = "Resolved" -> "Valid"
      [] from = "Disputed" /\ to = "Chargeback" -> "Valid"
      [] from = "Resolved" /\ to = "Disputed" -> "Valid"
      [] from = "Resolved" /\ to = "Resolved" -> "NoOperation"
      [] from = "Resolved" /\ to = "Chargeback" -> "Valid"
      [] from = "Chargeback" -> "Invalid"

calc_transition(from, to) ==
    CASE from = "Disputed" /\ to = "Disputed" -> "NoOperation"
      [] from = "Disputed" /\ to = "Resolved" -> "Valid"
      [] from = "Disputed" /\ to = "Chargeback" -> "Valid"
      [] from = "Resolved" /\ to = "Disputed" -> "Valid"
      [] from = "Resolved" /\ to = "Resolved" -> "NoOperation"
      [] from = "Resolved" /\ to = "Chargeback" -> "Invalid"
      [] from = "Chargeback" -> "Invalid"

deposit(amount) == [kind |-> "Deposit", amount |-> amount, state |-> "Resolved"]
withdrawal(amount) == [kind |-> "Withdrawal", amount |-> amount, state |-> "Resolved"]

\* the reverse amount without the sign change for a Withdrawal entry
get_amount_without_reversal(e) == e.amount

get_credit_or_debit_reverse_amount(e) ==
    IF e.kind = "Deposit" THEN e.amount ELSE reversed(e.amount)

get_transaction_state(e) == e.state
\* a state change that rewrites the entry as a Deposit entry
set_transaction_state_as_deposit(e, to) ==
    [kind |-> "Deposit", amount |-> e.amount, state |-> to]

set_transaction_state(e, to) == [e EXCEPT !.state = to]

\* ---------------------------------------------------------------- ClientBalance
\* HashMap::default(): the function with the empty domain
NoEntries == << >>

ClientBalanceDefault(c) ==
    [client_id |-> c, available |-> AmountDefault, held |-> AmountDefault,
     total |-> AmountDefault, locked |-> FALSE, transactions |-> NoEntries]

client_balance_snapshot(cb) ==
    [client_id |-> cb.client_id, available |-> cb.available, held |-> cb.held,
     total |-> cb.total, locked |-> cb.locked]

\* is_valid with the held check before the available check
is_valid_held_first(cb) ==
    IF ~AmountEq(cb.held, AmountSub(cb.total, cb.available)) THEN "InvalidHeldAmount"
    ELSE IF ~AmountEq(cb.available, AmountSub(cb.total, cb.held)) THEN "InvalidAvailableAmount"
    ELSE IF ~AmountEq(cb.total, AmountAdd(cb.available, cb.held)) THEN "InvalidTotalAmount"
    ELSE "Ok"

is_valid(cb) ==
    IF ~AmountEq(cb.available, AmountSub(cb.total, cb.held)) THEN "InvalidAvailableAmount"
    ELSE IF ~AmountEq(cb.held, AmountSub(cb.total, cb.available)) THEN "InvalidHeldAmount"
    ELSE IF ~AmountEq(cb.total, AmountAdd(cb.available, cb.held)) THEN "InvalidTotalAmount"
    ELSE "Ok"

\* HashMap::insert on the ledger
insert(transactions, transaction_id, entry) ==
    [t \in DOMAIN transactions \cup {transaction_id} |->
        IF t = transaction_id THEN entry ELSE transactions[t]]

\* the withdrawal branch without `self.total -= amount`
execute_withdrawal_keeps_total(cb, transaction_id, amount) ==
    [cb EXCEPT !.transactions = insert(@, transaction_id, withdrawal(amount)),
               !.available = AmountSub(@, amount)]

\* "execute deposit or withdrawal": the withdrawal branch
execute_withdrawal(cb, transaction_id, amount) ==
    [cb EXCEPT !.transactions = insert(@, transaction_id, withdrawal(amount)),
               !.available = AmountSub(@, amount),
               !.total = AmountSub(@, amount)]

\* "execute deposit or withdrawal": the deposit branch
execute_deposit(cb, transaction_id, amount) ==
    [cb EXCEPT !.transactions = insert(@, transaction_id, deposit(amount)),
               !.available = AmountAdd(@, amount),
               !.total = AmountAdd(@, amount)]

\* the insertion without the contains_key check: a used ID is inserted again
handle_insertion_without_duplicate_check(cb, transaction_id, amount, is_withdrawal) ==
    IF is_negative(amount) THEN [cb |-> cb, res |-> "NegativeAmount"]
    ELSE IF is_zero(amount) THEN [cb |-> cb, res |-> "ZeroAmount"]
    ELSE IF is_withdrawal /\ AmountLt(cb.available, amount)
        THEN [cb |-> cb, res |-> "InsufficientAvailableFunds"]
    ELSE IF is_withdrawal
        THEN [cb |-> execute_withdrawal(cb, transaction_id, amount), res |-> "Ok"]
    ELSE [cb |-> execute_deposit(cb, transaction_id, amount), res |-> "Ok"]

\* the insertion that compares the funds before it looks for the ID in the ledger
handle_insertion_funds_before_duplicate(cb, transaction_id, amount, is_withdrawal) ==
    IF is_negative(amount) THEN [cb |-> cb, res |-> "NegativeAmount"]
    ELSE IF is_zero(amount) THEN [cb |-> cb, res |-> "ZeroAmount"]
    ELSE IF is_withdrawal /\ AmountLt(cb.available, amount)
        THEN [cb |-> cb, res |-> "InsufficientAvailableFunds"]
    ELSE IF transaction_id \in DOMAIN cb.transactions
        THEN [cb |-> cb, res |-> "DuplicateTransactionIDInsertion"]
    ELSE IF is_withdrawal
        THEN [cb |-> execute_withdrawal(cb, transaction_id, amount), res |-> "Ok"]
    ELSE [cb |-> execute_deposit(cb, transaction_id, amount), res |-> "Ok"]

\* the insertion that enters the withdrawal in the ledger before it compares the funds
handle_insertion_reserving_id(cb, transaction_id, amount, is_withdrawal) ==
    IF is_negative(amount) THEN [cb |-> cb, res |-> "NegativeAmount"]
    ELSE IF is_zero(amount) THEN [cb |-> cb, res |-> "ZeroAmount"]
    ELSE IF transaction_id \in DOMAIN cb.transactions
        THEN [cb |-> cb, res |-> "DuplicateTransactionIDInsertion"]
    ELSE IF is_withdrawal /\ AmountLt(cb.available, amount)
        THEN [cb |-> [cb EXCEPT !.transactions = insert(@, transaction_id, withdrawal(amount))],
              res |-> "InsufficientAvailableFunds"]
    ELSE IF is_withdrawal
        THEN [cb |-> execute_withdrawal(cb, transaction_id, amount), res |-> "Ok"]
    ELSE [cb |-> execute_deposit(cb, transaction_id, amount), res |-> "Ok"]

\* the insertion that compares a withdrawal with total instead of available
handle_insertion_checks_total(cb, transaction_id, amount, is_withdrawal) ==
    IF is_negative(amount) THEN [cb |-> cb, res |-> "NegativeAmount"]
    ELSE IF is_zero(amount) THEN [cb |-> cb, res |-> "ZeroAmount"]
    ELSE IF transaction_id \in DOMAIN cb.transactions
        THEN [cb |-> cb, res |-> "DuplicateTransactionIDInsertion"]
    ELSE IF is_withdrawal /\ AmountLt(cb.total, amount)
        THEN [cb |-> cb, res |-> "InsufficientAvailableFunds"]
    ELSE IF is_withdrawal
        THEN [cb |-> execute_withdrawal(cb, transaction_id, amount), res |-> "Ok"]
    ELSE [cb |-> execute_deposit(cb, transaction_id, amount), res |-> "Ok"]

\* the handlers return the balance they leave and Ok or the ignore reason
handle_deposit_or_withdrawal_insertion(cb, transaction_id, amount, is_withdrawal) ==
    IF is_negative(amount) THEN [cb |-> cb, res |-> "NegativeAmount"]
    ELSE IF is_zero(amount) THEN [cb |-> cb, res |-> "ZeroAmount"]
    ELSE IF transaction_id \in DOMAIN cb.transactions
        THEN [cb |-> cb, res |-> "DuplicateTransactionIDInsertion"]
    ELSE IF is_withdrawal /\ AmountLt(cb.available, amount)
        THEN [cb |-> cb, res |-> "InsufficientAvailableFunds"]
    ELSE IF is_withdrawal
        THEN [cb |-> execute_withdrawal(cb, transaction_id, amount), res |-> "Ok"]
    ELSE [cb |-> execute_deposit(cb, transaction_id, amount), res |-> "Ok"]

handle_deposit(cb, transaction_id, amount) ==
    handle_deposit_or_withdrawal_insertion(cb, transaction_id, amount, FALSE)

handle_withdrawal(cb, transaction_id, amount) ==
    handle_deposit_or_withdrawal_insertion(cb, transaction_id, amount, TRUE)

\* the balance change with a Chargeback that takes the amount from available
execute_balance_change_chargeback_takes_available(cb, to, amount) ==
    CASE to = "Disputed" ->
             [cb EXCEPT !.available = AmountSub(@, amount), !.held = AmountAdd(@, amount)]
      [] to = "Resolved" ->
             [cb EXCEPT !.available = AmountAdd(@, amount), !.held = AmountSub(@, amount)]
      [] to = "Chargeback" ->
             [cb EXCEPT !.locked = TRUE,
                        !.total = AmountSub(@, amount),
                        !.available = AmountSub(@, amount)]

\* the balance change with a Dispute that locks the account as a Chargeback does
execute_balance_change_dispute_locks(cb, to, amount) ==
    CASE to = "Disputed" ->
             [cb EXCEPT !.locked = TRUE,
                        !.available = AmountSub(@, amount), !.held = AmountAdd(@, amount)]
      [] to = "Resolved" ->
             [cb EXCEPT !.available = AmountAdd(@, amount), !.held = AmountSub(@, amount)]
      [] to = "Chargeback" ->
             [cb EXCEPT !.locked = TRUE,
                        !.total = AmountSub(@, amount),
                        !.held = AmountSub(@, amount)]

\* the balance change with a Chargeback that adds the reverse amount
execute_balance_change_chargeback_adds(cb, to, amount) ==
    CASE to = "Disputed" ->
             [cb EXCEPT !.available = AmountSub(@, amount), !.held = AmountAdd(@, amount)]
      [] to = "Resolved" ->
             [cb EXCEPT !.available = AmountAdd(@, amount), !.held = AmountSub(@, amount)]
      [] to = "Chargeback" ->
             [cb EXCEPT !.locked = TRUE,
                        !.total = AmountAdd(@, amount),
                        !.held = AmountAdd(@, amount)]

\* "execute balance change": the effect of a valid transition to `to`, by the
\* entry's reverse amount
\* the balance change with a Chargeback that does not lock the account
execute_balance_change_chargeback_unlocked(cb, to, amount) ==
    CASE to = "Disputed" ->
             [cb EXCEPT !.available = AmountSub(@, amount), !.held = AmountAdd(@, amount)]
      [] to = "Resolved" ->
             [cb EXCEPT !.available = AmountAdd(@, amount), !.held = AmountSub(@, amount)]
      [] to = "Chargeback" ->
             [cb EXCEPT !.total = AmountSub(@, amount),
                        !.held = AmountSub(@, amount)]

execute_balance_change(cb, to, amount) ==
    CASE to = "Disputed" ->
             [cb EXCEPT !.available = AmountSub(@, amount), !.held = AmountAdd(@, amount)]
      [] to = "Resolved" ->
             [cb EXCEPT !.available = AmountAdd(@, amount), !.held = AmountSub(@, amount)]
      [] to = "Chargeback" ->
             [cb EXCEPT !.locked = TRUE,
                        !.total = AmountSub(@, amount),
                        !.held = AmountSub(@, amount)]

\* the transition with the Chargeback lock taken before the transition is classified
handle_transaction_trasition_locks_first(cb, transaction_id, to) ==
    IF transaction_id \notin DOMAIN cb.transactions
        THEN [cb |-> cb, res |-> "MissingTransactionID"]
    ELSE LET tx == cb.transactions[transaction_id]
             from == get_transaction_state(tx)
             class == calc_transition(from, to)
             amount == get_credit_or_debit_reverse_amount(tx)
             cb0 == [cb EXCEPT !.locked = @ \/ to = "Chargeback"]
             cb1 == [cb0 EXCEPT !.transactions[transaction_id] = set_transaction_state(tx, to)]
         IN  IF class = "NoOperation" THEN [cb |-> cb0, res |-> "NoTransactionStateChange"]
             ELSE IF class = "Invalid"
                 THEN [cb |-> cb0, res |-> "InvalidTransactionStateTransition"]
             ELSE [cb |-> execute_balance_change(cb1, to, amount), res |-> "Ok"]

\* the transition with a reference to a missing entry reported as an invalid transition
handle_transaction_trasition_missing_is_invalid(cb, transaction_id, to) ==
    IF transaction_id \notin DOMAIN cb.transactions
        THEN [cb |-> cb, res |-> "InvalidTransactionStateTransition"]
    ELSE LET tx == cb.transactions[transaction_id]
             from == get_transaction_state(tx)
             class == calc_transition(from, to)
             amount == get_credit_or_debit_reverse_amount(tx)
             cb1 == [cb EXCEPT !.transactions[transaction_id] = set_transaction_state(tx, to)]
         IN  IF class = "NoOperation" THEN [cb |-> cb, res |-> "NoTransactionStateChange"]
             ELSE IF class = "Invalid"
                 THEN [cb |-> cb, res |-> "InvalidTransactionStateTransition"]
             ELSE [cb |-> execute_balance_change(cb1, to, amount), res |-> "Ok"]

\* the transition that stores the new state before the transition is judged
handle_transaction_trasition_stores_first(cb, transaction_id, to) ==
    IF transaction_id \notin DOMAIN cb.transactions
        THEN [cb |-> cb, res |-> "MissingTransactionID"]
    ELSE LET tx == cb.transactions[transaction_id]
             from == get_transaction_state(tx)
             class == calc_transition(from, to)
             amount == get_credit_or_debit_reverse_amount(tx)
             cb1 == [cb EXCEPT !.transactions[transaction_id] = set_transaction_state(tx, to)]
         IN  IF class = "NoOperation" THEN [cb |-> cb1, res |-> "NoTransactionStateChange"]
             ELSE IF class = "Invalid"
                 THEN [cb |-> cb1, res |-> "InvalidTransactionStateTransition"]
             ELSE [cb |-> execute_balance_change(cb1, to, amount), res |-> "Ok"]

handle_transaction_trasition(cb, transaction_id, to) ==
    IF transaction_id \notin DOMAIN cb.transactions
        THEN [cb |-> cb, res |-> "MissingTransactionID"]
    ELSE LET tx == cb.transactions[transaction_id]
             from == get_transaction_state(tx)
             class == calc_transition(from, to)
             amount == get_credit_or_debit_reverse_amount(tx)
             cb1 == [cb EXCEPT !.transactions[transaction_id] = set_transaction_state(tx, to)]
         IN  IF class = "NoOperation" THEN [cb |-> cb, res |-> "NoTransactionStateChange"]
             ELSE IF class = "Invalid"
                 THEN [cb |-> cb, res |-> "InvalidTransactionStateTransition"]
             ELSE [cb |-> execute_balance_change(cb1, to, amount), res |-> "Ok"]

handle_dispute(cb, transaction_id) ==
    handle_transaction_trasition(cb, transaction_id, "Disputed")

handle_resolve(cb, transaction_id) ==
    handle_transaction_trasition(cb, transaction_id, "Resolved")

\* a Chargeback handled as a Resolve
handle_chargeback_as_resolve(cb, transaction_id) ==
    handle_transaction_trasition(cb, transaction_id, "Resolved")

handle_chargeback(cb, transaction_id) ==
    handle_transaction_trasition(cb, transaction_id, "Chargeback")

\* ---------------------------------------------------------------- results
Ok == [kind |-> "Ok", transaction_id |-> 0, reason |-> "None"]
\* an ignore error that carries TransactionID::default() instead of the given ID
IgnoredTransactionReason_default_id(transaction_id, reason) ==
    [kind |-> "IgnoredTransactionReason", transaction_id |-> 0, reason |-> reason]

IgnoredTransactionReason(transaction_id, reason) ==
    [kind |-> "IgnoredTransactionReason", transaction_id |-> transaction_id, reason |-> reason]
InvalidClientBalance(transaction_id, reason) ==
    [kind |-> "InvalidClientBalance", transaction_id |-> transaction_id, reason |-> reason]
NoResult == [kind |-> "None", transaction_id |-> 0, reason |-> "None"]

\* ---------------------------------------------------------------- transactions
Transaction(c, t, type, amount) ==
    [client_id |-> c, transaction_id |-> t,
     transaction_type |-> [kind |-> type, amount |-> amount]]
NoTransaction == Transaction(0, 0, "None", NoAmount)

\* the match on the transaction type in ClientBalance::handle_transaction
dispatch(cb, tx) ==
    LET transaction_type == tx.transaction_type
    IN  CASE transaction_type.kind = "Deposit" ->
                 handle_deposit(cb, tx.transaction_id, transaction_type.amount)
          [] transaction_type.kind = "Withdrawal" ->
                 handle_withdrawal(cb, tx.transaction_id, transaction_type.amount)
          [] transaction_type.kind = "Dispute" -> handle_dispute(cb, tx.transaction_id)
          [] transaction_type.kind = "Resolve" -> handle_resolve(cb, tx.transaction_id)
          [] transaction_type.kind = "Chargeback" -> handle_chargeback(cb, tx.transaction_id)

\* handle_transaction without the early return on a locked account
ClientBalance_handle_transaction_unlocked(cb, tx) ==
    LET handled_tx_result == dispatch(cb, tx)
        valid == is_valid(handled_tx_result.cb)
    IN  IF handled_tx_result.res # "Ok"
            THEN [cb |-> handled_tx_result.cb,
                  res |-> IgnoredTransactionReason(tx.transaction_id, handled_tx_result.res)]
        ELSE IF valid # "Ok"
            THEN [cb |-> handled_tx_result.cb,
                  res |-> InvalidClientBalance(tx.transaction_id, valid)]
        ELSE [cb |-> handled_tx_result.cb, res |-> Ok]

\* ClientBalance::handle_transaction
ClientBalance_handle_transaction(cb, tx) ==
    IF cb.locked
        THEN [cb |-> cb, res |-> IgnoredTransactionReason(tx.transaction_id, "LockedAccount")]
    ELSE LET handled_tx_result == dispatch(cb, tx)
             valid == is_valid(handled_tx_result.cb)
         IN  IF handled_tx_result.res # "Ok"
                 THEN [cb |-> handled_tx_result.cb,
                       res |-> IgnoredTransactionReason(tx.transaction_id, handled_tx_result.res)]
             ELSE IF valid # "Ok"
                 THEN [cb |-> handled_tx_result.cb,
                       res |-> InvalidClientBalance(tx.transaction_id, valid)]
             ELSE [cb |-> handled_tx_result.cb, res |-> Ok]

\* A record of the input: <<type, client, tx, amount>>, the amount an f64 or NoAmount
\* for an empty field. InputTransactionRecord::deserialize rounds a present amount
\* with Amount::new (Amount::deserialize).
InputTransactionRecord(record) ==
    <<record[1], record[2], record[3],
      IF record[4] = NoAmount THEN NoAmount ELSE AmountNew(record[4])>>

\* a deserialization that takes Amount::default() for a missing amount
Transaction_deserialize_default_amount(record) ==
    LET tmp == InputTransactionRecord(record)
        amount == IF tmp[4] = NoAmount THEN AmountDefault ELSE tmp[4]
    IN  CASE tmp[1] = "deposit" -> Transaction(tmp[2], tmp[3], "Deposit", amount)
          [] tmp[1] = "withdrawal" -> Transaction(tmp[2], tmp[3], "Withdrawal", amount)
          [] tmp[1] = "dispute" -> Transaction(tmp[2], tmp[3], "Dispute", NoAmount)
          [] tmp[1] = "resolve" -> Transaction(tmp[2], tmp[3], "Resolve", NoAmount)
          [] tmp[1] = "chargeback" -> Transaction(tmp[2], tmp[3], "Chargeback", NoAmount)
          [] OTHER -> NoTransaction

\* Transaction::deserialize: the Transaction of a record, NoTransaction for Err
Transaction_deserialize(record) ==
    LET tmp == InputTransactionRecord(record)
    IN  CASE tmp[1] = "deposit" /\ tmp[4] # NoAmount ->
                 Transaction(tmp[2], tmp[3], "Deposit", tmp[4])
          [] tmp[1] = "withdrawal" /\ tmp[4] # NoAmount ->
                 Transaction(tmp[2], tmp[3], "Withdrawal", tmp[4])
          [] tmp[1] = "dispute" -> Transaction(tmp[2], tmp[3], "Dispute", NoAmount)
          [] tmp[1] = "resolve" -> Transaction(tmp[2], tmp[3], "Resolve", NoAmount)
          [] tmp[1] = "chargeback" -> Transaction(tmp[2], tmp[3], "Chargeback", NoAmount)
          [] OTHER -> NoTransaction

\* rdr.deserialize::<Transaction>().flatten(): the Ok items, in the order of the records
deserialize_flatten(rs) ==
    LET parsed == SelectSeq(rs, LAMBDA record : Transaction_deserialize(record) # NoTransaction)
    IN  [i \in 1..Len(parsed) |-> Transaction_deserialize(parsed[i])]

\* ---------------------------------------------------------------- scenarios
\* test_dispute_chargeback_deposit: Deposit(100.0), Dispute, Chargeback of one
\* transaction ID on a fresh ClientBalance; the three results and the final snapshot
test_dispute_chargeback_deposit ==
    LET amount == AmountNew(Fin(100 * AMOUNT_PRECISION_EXP * SubUnits))
        deposited == ClientBalance_handle_transaction(
                         ClientBalanceDefault(1), Transaction(1, 1, "Deposit", amount))
        disputed == ClientBalance_handle_transaction(
                        deposited.cb, Transaction(1, 1, "Dispute", NoAmount))
        charged == ClientBalance_handle_transaction(
                       disputed.cb, Transaction(1, 1, "Chargeback", NoAmount))
    IN  <<deposited.res, disputed.res, charged.res, client_balance_snapshot(charged.cb)>>

\* test_dispute_resolve_deposit_with_withdrawal: the results of its five calls and
\* the ledger IDs they leave
test_dispute_resolve_deposit_with_withdrawal ==
    LET deposit_amout == AmountNew(Fin(100 * AMOUNT_PRECISION_EXP * SubUnits))
        deposited == ClientBalance_handle_transaction(
                         ClientBalanceDefault(1), Transaction(1, 0, "Deposit", deposit_amout))
        disputed == ClientBalance_handle_transaction(
                        deposited.cb, Transaction(1, 0, "Dispute", NoAmount))
        ignored == ClientBalance_handle_transaction(
                       disputed.cb, Transaction(1, 1, "Withdrawal", deposit_amout))
        resolved == ClientBalance_handle_transaction(
                        ignored.cb, Transaction(1, 0, "Resolve", NoAmount))
        withdrawn == ClientBalance_handle_transaction(
                         resolved.cb, Transaction(1, 1, "Withdrawal", deposit_amout))
    IN  <<deposited.res, disputed.res, ignored.res, resolved.res, withdrawn.res,
          DOMAIN ignored.cb.transactions, DOMAIN withdrawn.cb.transactions>>

\* the calls of a test in order: the balance they leave and whether each returned Ok
RECURSIVE assert_ok_transactions(_, _)
assert_ok_transactions(cb, txs) ==
    IF txs = << >> THEN [cb |-> cb, res |-> TRUE]
    ELSE LET handled == ClientBalance_handle_transaction(cb, Head(txs))
             rest == assert_ok_transactions(handled.cb, Tail(txs))
         IN  [cb |-> rest.cb, res |-> handled.res = Ok /\ rest.res]

\* test_deposit_withdrawal_dispute: Deposit(100.0) with ID 0, Withdrawal(100.0) with
\* ID 1 and the Dispute of ID 1, each asserted Ok
test_deposit_withdrawal_dispute ==
    LET deposit_amout == AmountNew(Fin(100 * AMOUNT_PRECISION_EXP * SubUnits))
        withdrawal_amout == AmountNew(Fin(100 * AMOUNT_PRECISION_EXP * SubUnits))
    IN  assert_ok_transactions(
            ClientBalanceDefault(1),
            <<Transaction(1, 0, "Deposit", deposit_amout),
              Transaction(1, 1, "Withdrawal", withdrawal_amout),
              Transaction(1, 1, "Dispute", NoAmount)>>)

\* the proptest body of the two chargeback tests, run once per amount: Deposit and
\* Withdrawal of the amount with the next two transaction IDs (from 1), then the
\* Dispute of the withdrawal and the Dispute of the deposit
RECURSIVE deposits_withdrawal_disputes(_, _)
deposits_withdrawal_disputes(amounts, tx_id_seq) ==
    IF amounts = << >> THEN << >>
    ELSE <<Transaction(1, tx_id_seq, "Deposit", AmountNew(Head(amounts))),
           Transaction(1, tx_id_seq + 1, "Withdrawal", AmountNew(Head(amounts))),
           Transaction(1, tx_id_seq + 1, "Dispute", NoAmount),
           Transaction(1, tx_id_seq, "Dispute", NoAmount)>>
         \o deposits_withdrawal_disputes(Tail(amounts), tx_id_seq + 2)

\* two amounts of the proptest range 1.0 .. 1000.0: 1.0 and 999.9999
proptest_amounts ==
    <<Fin(AMOUNT_PRECISION_EXP * SubUnits),
      Fin((1000 * AMOUNT_PRECISION_EXP - 1) * SubUnits)>>

\* test_deposits_withdrawal_disputes_chargeback_withdrawal: after the loop the
\* Chargeback of transaction ID tx_id_seq - 2, the last deposit
test_deposits_withdrawal_disputes_chargeback_withdrawal ==
    LET looped == assert_ok_transactions(
                      ClientBalanceDefault(1),
                      deposits_withdrawal_disputes(proptest_amounts, 1))
        tx_id_seq == 2 * Len(proptest_amounts) + 1
        charged == ClientBalance_handle_transaction(
                       looped.cb, Transaction(1, tx_id_seq - 2, "Chargeback", NoAmount))
    IN  <<looped.res, client_balance_snapshot(looped.cb), charged.res,
          client_balance_snapshot(charged.cb)>>

\* test_deposits_withdrawal_disputes_chargeback_deposit: after the loop the
\* Chargeback of transaction ID tx_id_seq - 1, the last withdrawal
test_deposits_withdrawal_disputes_chargeback_deposit ==
    LET looped == assert_ok_transactions(
                      ClientBalanceDefault(1),
                      deposits_withdrawal_disputes(proptest_amounts, 1))
        tx_id_seq == 2 * Len(proptest_amounts) + 1
        charged == ClientBalance_handle_transaction(
                       looped.cb, Transaction(1, tx_id_seq - 1, "Chargeback", NoAmount))
    IN  <<looped.res, client_balance_snapshot(looped.cb), charged.res,
          client_balance_snapshot(charged.cb)>>

\* ---------------------------------------------------------------- state
VARIABLES client_balances, prev_balances, last_tx, last_result, open_disputes,
          chargeback_sent, steps, stream, records, cursor, pc, output

\* the batch driver's side of the state: the transactions handed to the Atm so far,
\* the records of the input, how many of them were read, the driver's phase and the
\* snapshots it has written
main_vars == <<stream, records, cursor, pc, output>>

vars ==
    <<client_balances, prev_balances, last_tx, last_result, open_disputes,
      chargeback_sent, steps, stream, records, cursor, pc, output>>

NoBalances == << >>

\* Atm::default(): an empty registry, nothing handled yet
Init ==
    /\ client_balances = NoBalances
    /\ prev_balances = NoBalances
    /\ last_tx = NoTransaction
    /\ last_result = NoResult
    /\ open_disputes = {}
    /\ chargeback_sent = FALSE
    /\ steps = 0
    /\ stream = << >>
    /\ records = << >>
    /\ cursor = 0
    /\ pc = "read"
    /\ output = {}

\* entry().or_insert() as insert(): every call starts from a default ClientBalance
entry_insert_default(balances, c) == ClientBalanceDefault(c)

\* a registry that starts a new client from the balance of a client it already holds
entry_or_insert_shared(balances, c) ==
    IF c \in DOMAIN balances THEN balances[c]
    ELSE IF DOMAIN balances = {} THEN ClientBalanceDefault(c)
    ELSE [balances[CHOOSE d \in DOMAIN balances : TRUE] EXCEPT !.client_id = c]

\* the ClientBalance Atm::handle_transaction hands the transaction to
entry_or_insert(balances, c) ==
    IF c \in DOMAIN balances THEN balances[c] ELSE ClientBalanceDefault(c)

\* the record of the stream's disputes: <<client, transaction ID, result>> of every
\* Dispute that was not ignored and has had no Resolve that was not ignored since
record_dispute(disputes, tx, res) ==
    LET others == {d \in disputes : <<d[1], d[2]>> # <<tx.client_id, tx.transaction_id>>}
    IN  IF res.kind \notin {"Ok", "InvalidClientBalance"} THEN disputes
        ELSE IF tx.transaction_type.kind = "Dispute"
            THEN others \cup {<<tx.client_id, tx.transaction_id, res.kind>>}
        ELSE IF tx.transaction_type.kind = "Resolve" THEN others
        ELSE disputes

\* a registry in which the lock of the handled client is set on every client
Atm_handled_locks_registry(balances, tx) ==
    LET client_balance == entry_or_insert(balances, tx.client_id)
        handled == ClientBalance_handle_transaction(client_balance, tx)
    IN  <<[c \in DOMAIN balances \cup {tx.client_id} |->
              IF c = tx.client_id THEN handled.cb
              ELSE [balances[c] EXCEPT !.locked = @ \/ handled.cb.locked]],
          handled.res>>

\* a registry with one ledger for all clients: a transaction whose ID is in the ledger
\* of another client only is handed to that client's balance
Atm_handled_global_ids(balances, tx) ==
    LET holders == {c \in DOMAIN balances : tx.transaction_id \in DOMAIN balances[c].transactions}
        owner == IF tx.client_id \in holders \/ holders = {} THEN tx.client_id
                 ELSE CHOOSE c \in holders : TRUE
        client_balance == entry_or_insert(balances, owner)
        handled == ClientBalance_handle_transaction(client_balance, tx)
    IN  <<IF owner \in DOMAIN balances
          THEN [balances EXCEPT ![owner] = handled.cb]
          ELSE (owner :> handled.cb) @@ balances,
          handled.res>>

\* Atm::handle_transaction as a function of the registry: <<the registry it leaves,
\* the result it returns>>
Atm_handled(balances, tx) ==
    LET client_balance == entry_or_insert(balances, tx.client_id)
        handled == ClientBalance_handle_transaction(client_balance, tx)
    IN  <<IF tx.client_id \in DOMAIN balances
          THEN [balances EXCEPT ![tx.client_id] = handled.cb]
          ELSE (tx.client_id :> handled.cb) @@ balances,
          handled.res>>

\* Atm::handle_transaction
Atm_handle_transaction(tx) ==
    LET handled == Atm_handled(client_balances, tx)
    IN  /\ client_balances' = handled[1]
        /\ prev_balances' = client_balances
        /\ last_tx' = tx
        /\ last_result' = handled[2]
        /\ open_disputes' = record_dispute(open_disputes, tx, handled[2])
        /\ chargeback_sent' = (chargeback_sent \/ tx.transaction_type.kind = "Chargeback")
        /\ steps' = steps + 1

\* accounts without the clients that have no ledger entry
accounts_with_entries ==
    {client_balance_snapshot(client_balances[c]) :
        c \in {d \in DOMAIN client_balances : DOMAIN client_balances[d].transactions # {}}}

\* Atm::accounts
accounts == {client_balance_snapshot(client_balances[c]) : c \in DOMAIN client_balances}

\* the f64 values a record's amount can parse to, before Amount::new rounds them
RawAmounts ==
    {Fin(n) : n \in (0 - SubUnits)..(MaxAmount * SubUnits)} \cup {PosInf, NegInf, NaN}

\* Amount::deserialize: every amount of a record goes through Amount::new
Amounts == {AmountNew(raw) : raw \in RawAmounts}

Deposit ==
    /\ steps < MaxSteps
    /\ \E c \in ClientIDs, t \in TransactionIDs, amount \in Amounts :
          Atm_handle_transaction(Transaction(c, t, "Deposit", amount))
    /\ UNCHANGED main_vars

Withdrawal ==
    /\ steps < MaxSteps
    /\ \E c \in ClientIDs, t \in TransactionIDs, amount \in Amounts :
          Atm_handle_transaction(Transaction(c, t, "Withdrawal", amount))
    /\ UNCHANGED main_vars

Dispute ==
    /\ steps < MaxSteps
    /\ \E c \in ClientIDs, t \in TransactionIDs :
          Atm_handle_transaction(Transaction(c, t, "Dispute", NoAmount))
    /\ UNCHANGED main_vars

Resolve ==
    /\ steps < MaxSteps
    /\ \E c \in ClientIDs, t \in TransactionIDs :
          Atm_handle_transaction(Transaction(c, t, "Resolve", NoAmount))
    /\ UNCHANGED main_vars

Chargeback ==
    /\ steps < MaxSteps
    /\ \E c \in ClientIDs, t \in TransactionIDs :
          Atm_handle_transaction(Transaction(c, t, "Chargeback", NoAmount))
    /\ UNCHANGED main_vars

Next == Deposit \/ Withdrawal \/ Dispute \/ Resolve \/ Chargeback

Spec == Init /\ [][Next]_vars

\* a longer stream over more transaction IDs, with one amount and without Resolve
LongTransactionIDs == {1, 2, 3, 4}
LongAmounts == {AmountNew(Fin(MaxAmount * SubUnits))}
LongSteps == MaxSteps + 2

LongDeposit ==
    /\ steps < LongSteps
    /\ \E c \in ClientIDs, t \in LongTransactionIDs, amount \in LongAmounts :
          Atm_handle_transaction(Transaction(c, t, "Deposit", amount))
    /\ UNCHANGED main_vars

LongWithdrawal ==
    /\ steps < LongSteps
    /\ \E c \in ClientIDs, t \in LongTransactionIDs, amount \in LongAmounts :
          Atm_handle_transaction(Transaction(c, t, "Withdrawal", amount))
    /\ UNCHANGED main_vars

LongDispute ==
    /\ steps < LongSteps
    /\ \E c \in ClientIDs, t \in LongTransactionIDs :
          Atm_handle_transaction(Transaction(c, t, "Dispute", NoAmount))
    /\ UNCHANGED main_vars

LongChargeback ==
    /\ steps < LongSteps
    /\ \E c \in ClientIDs, t \in LongTransactionIDs :
          Atm_handle_transaction(Transaction(c, t, "Chargeback", NoAmount))
    /\ UNCHANGED main_vars

LongNext == LongDeposit \/ LongWithdrawal \/ LongDispute \/ LongChargeback

LongSpec == Init /\ [][LongNext]_vars

\* deposits and withdrawals only: the client receives no Dispute, Resolve or Chargeback
CashDeposit ==
    /\ steps < MaxSteps
    /\ \E c \in ClientIDs, t \in TransactionIDs, amount \in Amounts :
          Atm_handle_transaction(Transaction(c, t, "Deposit", amount))
    /\ UNCHANGED main_vars

CashWithdrawal ==
    /\ steps < MaxSteps
    /\ \E c \in ClientIDs, t \in TransactionIDs, amount \in Amounts :
          Atm_handle_transaction(Transaction(c, t, "Withdrawal", amount))
    /\ UNCHANGED main_vars

CashNext == CashDeposit \/ CashWithdrawal

CashSpec == Init /\ [][CashNext]_vars

\* is_valid on its own: a ClientBalance with any three Amounts, f64 infinities and NaN
\* included, and one call of is_valid on it; the Result is kept in last_result
ValidAmounts ==
    {AmountNew(Fin(n)) : n \in (0 - MaxAmount * SubUnits)..(MaxAmount * SubUnits)}
        \cup {PosInf, NegInf, NaN}

ClientBalanceWith(available, held, total) ==
    [ClientBalanceDefault(1) EXCEPT !.available = available, !.held = held, !.total = total]

ValidInit ==
    /\ client_balances \in
          {(1 :> ClientBalanceWith(available, held, total)) :
              available \in ValidAmounts, held \in ValidAmounts, total \in ValidAmounts}
    /\ prev_balances = NoBalances
    /\ last_tx = NoTransaction
    /\ last_result = NoResult
    /\ open_disputes = {}
    /\ chargeback_sent = FALSE
    /\ steps = 0
    /\ stream = << >>
    /\ records = << >>
    /\ cursor = 0
    /\ pc = "read"
    /\ output = {}

IsValidCall ==
    /\ steps = 0
    /\ LET res == is_valid(client_balances[1])
       IN  last_result' = IF res = "Ok" THEN Ok ELSE InvalidClientBalance(0, res)
    /\ steps' = 1
    /\ UNCHANGED <<client_balances, prev_balances, last_tx, open_disputes, chargeback_sent>>
    /\ UNCHANGED main_vars

ValidNext == IsValidCall

ValidSpec == ValidInit /\ [][ValidNext]_vars

\* a stream for two clients, with one transaction ID and one amount; the transactions
\* handed to the Atm are recorded in `stream`
PairClientIDs == {1, 2}
PairTransactionIDs == {1}
PairSteps == MaxSteps - 1

PairHandle(tx) ==
    /\ Atm_handle_transaction(tx)
    /\ stream' = Append(stream, tx)
    /\ UNCHANGED <<records, cursor, pc, output>>

PairDeposit ==
    /\ steps < PairSteps
    /\ \E c \in PairClientIDs, t \in PairTransactionIDs, amount \in LongAmounts :
          PairHandle(Transaction(c, t, "Deposit", amount))

PairWithdrawal ==
    /\ steps < PairSteps
    /\ \E c \in PairClientIDs, t \in PairTransactionIDs, amount \in LongAmounts :
          PairHandle(Transaction(c, t, "Withdrawal", amount))

PairDispute ==
    /\ steps < PairSteps
    /\ \E c \in PairClientIDs, t \in PairTransactionIDs :
          PairHandle(Transaction(c, t, "Dispute", NoAmount))

PairResolve ==
    /\ steps < PairSteps
    /\ \E c \in PairClientIDs, t \in PairTransactionIDs :
          PairHandle(Transaction(c, t, "Resolve", NoAmount))

PairChargeback ==
    /\ steps < PairSteps
    /\ \E c \in PairClientIDs, t \in PairTransactionIDs :
          PairHandle(Transaction(c, t, "Chargeback", NoAmount))

PairNext == PairDeposit \/ PairWithdrawal \/ PairDispute \/ PairResolve \/ PairChargeback

PairSpec == Init /\ [][PairNext]_vars

\* two clients that share the transaction IDs, with one amount: Deposit, Withdrawal,
\* Dispute and Chargeback of either client with either ID
CrossDeposit ==
    /\ steps < MaxSteps
    /\ \E c \in PairClientIDs, t \in TransactionIDs, amount \in LongAmounts :
          Atm_handle_transaction(Transaction(c, t, "Deposit", amount))
    /\ UNCHANGED main_vars

CrossWithdrawal ==
    /\ steps < MaxSteps
    /\ \E c \in PairClientIDs, t \in TransactionIDs, amount \in LongAmounts :
          Atm_handle_transaction(Transaction(c, t, "Withdrawal", amount))
    /\ UNCHANGED main_vars

CrossDispute ==
    /\ steps < MaxSteps
    /\ \E c \in PairClientIDs, t \in TransactionIDs :
          Atm_handle_transaction(Transaction(c, t, "Dispute", NoAmount))
    /\ UNCHANGED main_vars

CrossChargeback ==
    /\ steps < MaxSteps
    /\ \E c \in PairClientIDs, t \in TransactionIDs :
          Atm_handle_transaction(Transaction(c, t, "Chargeback", NoAmount))
    /\ UNCHANGED main_vars

CrossNext == CrossDeposit \/ CrossWithdrawal \/ CrossDispute \/ CrossChargeback

CrossSpec == Init /\ [][CrossNext]_vars

\* the batch driver: main reads the records of a finite input in order, hands every
\* record that deserializes to the Atm, and writes the snapshots at the end of input
RecordTypes == {"deposit", "withdrawal", "dispute", "resolve", "chargeback", "transfer"}
RecordAmounts == {NoAmount, Fin(MaxAmount * SubUnits - 1)}
MainRecords == MaxSteps - 2
InputRecords ==
    {<<type, c, t, amount>> :
        type \in RecordTypes, c \in ClientIDs, t \in PairTransactionIDs, amount \in RecordAmounts}
        \cup {<<"deposit", c, t, PosInf>> : c \in ClientIDs, t \in PairTransactionIDs}
Inputs == UNION {[1..n -> InputRecords] : n \in 0..MainRecords}

MainInit ==
    /\ client_balances = NoBalances
    /\ prev_balances = NoBalances
    /\ last_tx = NoTransaction
    /\ last_result = NoResult
    /\ open_disputes = {}
    /\ chargeback_sent = FALSE
    /\ steps = 0
    /\ stream = << >>
    /\ records \in Inputs
    /\ cursor = 0
    /\ pc = "read"
    /\ output = {}

\* a driver that stops reading at the first result that is not Ok
stop_at_error(result) == IF result = Ok THEN "read" ELSE "write"

\* `_ = atm.handle_transaction(tx)`: the result is discarded and the loop goes on
discard_result(result) == "read"

\* the loop body for a record that deserializes
MainHandle ==
    /\ pc = "read"
    /\ cursor < Len(records)
    /\ LET tx == Transaction_deserialize(records[cursor + 1])
       IN  /\ tx # NoTransaction
           /\ Atm_handle_transaction(tx)
           /\ stream' = Append(stream, tx)
           /\ pc' = discard_result(Atm_handled(client_balances, tx)[2])
    /\ cursor' = cursor + 1
    /\ UNCHANGED <<records, output>>

\* flatten() skips a record whose deserialization is Err
MainDrop ==
    /\ pc = "read"
    /\ cursor < Len(records)
    /\ Transaction_deserialize(records[cursor + 1]) = NoTransaction
    /\ cursor' = cursor + 1
    /\ UNCHANGED <<client_balances, prev_balances, last_tx, last_result, open_disputes,
                   chargeback_sent, steps, stream, records, pc, output>>

\* the iterator is exhausted: the loop ends and the output phase begins
MainEndOfInput ==
    /\ pc = "read"
    /\ cursor = Len(records)
    /\ pc' = "write"
    /\ UNCHANGED <<client_balances, prev_balances, last_tx, last_result, open_disputes,
                   chargeback_sent, steps, stream, records, cursor, output>>

\* the output phase: every snapshot of atm.accounts() is serialized
MainWrite ==
    /\ pc = "write"
    /\ output' = accounts
    /\ pc' = "done"
    /\ UNCHANGED <<client_balances, prev_balances, last_tx, last_result, open_disputes,
                   chargeback_sent, steps, stream, records, cursor>>

MainNext == MainHandle \/ MainDrop \/ MainEndOfInput \/ MainWrite

MainSpec == MainInit /\ [][MainNext]_vars

\* the control flow of main, on the read position and the phase alone: the loop takes
\* the next record while there is one, leaves the loop at the end of the input, and
\* the output phase ends
MainLoopStep ==
    \/ pc = "read" /\ cursor < Len(records) /\ cursor' = cursor + 1 /\ pc' = pc
    \/ pc = "read" /\ cursor = Len(records) /\ cursor' = cursor /\ pc' = "write"
    \/ pc = "write" /\ cursor' = cursor /\ pc' = "done"

\* main is one sequential loop without blocking calls: while its control flow has a
\* next step, the step is taken
MainFairSpec == MainSpec /\ WF_<<cursor, pc>>(MainLoopStep)

TypeOK ==
    /\ DOMAIN client_balances \subseteq ClientIDs
    /\ \A c \in DOMAIN client_balances :
          LET cb == client_balances[c]
          IN  /\ cb.client_id = c
              /\ {cb.available, cb.held, cb.total} \subseteq F64Type
              /\ cb.locked \in BOOLEAN
              /\ DOMAIN cb.transactions \subseteq TransactionIDs
              /\ \A t \in DOMAIN cb.transactions : cb.transactions[t] \in CreditDebitStateType
    /\ last_tx = NoTransaction \/ last_tx \in TransactionRecordType
    /\ last_result = NoResult \/ last_result \in HandledTransactionResultType
    /\ chargeback_sent \in BOOLEAN
    /\ open_disputes \subseteq
           ClientIDs \X TransactionIDs \X {"Ok", "InvalidClientBalance"}
    /\ steps \in 0..MaxSteps

\* ---------------------------------------------------------------- observers
\* a transaction has been handled
Handled == last_tx # NoTransaction
\* the last transaction's type and amount
TxKind == last_tx.transaction_type.kind
TxAmount == last_tx.transaction_type.amount
\* the balance of the last transaction's client before and after the call
Pre == entry_or_insert(prev_balances, last_tx.client_id)
Post == client_balances[last_tx.client_id]
Balances(cb) == <<cb.available, cb.held, cb.total>>
Ignored(reason) == last_result = IgnoredTransactionReason(last_tx.transaction_id, reason)
IsInsertion == TxKind \in {"Deposit", "Withdrawal"}
IsTransition == TxKind \in {"Dispute", "Resolve", "Chargeback"}
FreshID == last_tx.transaction_id \notin DOMAIN Pre.transactions
\* a > 0, a = 0, a < 0 as f64 comparisons
Positive(a) == F64Lt(Fin(0), a)
Zero(a) == a = Fin(0)
Negative(a) == a.cls \in {"fin", "inf"} /\ a.v < 0
IgnoreReasons ==
    {"LockedAccount", "NegativeAmount", "ZeroAmount", "DuplicateTransactionIDInsertion",
     "InsufficientAvailableFunds", "MissingTransactionID", "NoTransactionStateChange",
     "InvalidTransactionStateTransition"}

\* ---------------------------------------------------------------- claims

\* C1: after any sequence of handle_transaction calls every Client Balance in the
\* registry satisfies total == available + held.
C1_TotalIsAvailablePlusHeld ==
    \A c \in DOMAIN client_balances :
        AmountEq(client_balances[c].total,
                 AmountAdd(client_balances[c].available, client_balances[c].held))

\* C2: whenever handle_transaction returns IgnoredTransactionReason (one of the eight
\* reasons), available, held, total and locked are what they were before the call.
C2_IgnoredLeavesBalance ==
    (Handled /\ last_result.kind = "IgnoredTransactionReason") =>
        /\ last_result.reason \in IgnoreReasons
        /\ client_balance_snapshot(Post) = client_balance_snapshot(Pre)

C2_Witness ==
    /\ Ignored("InvalidTransactionStateTransition")
    /\ TxKind = "Chargeback"
    /\ Pre.available = Fin(MaxAmount * SubUnits)

\* C3: once locked is true it stays true, and every later transaction of any type
\* returns LockedAccount and leaves available, held and total unchanged.
C3_LockedStaysLocked ==
    /\ \A c \in DOMAIN prev_balances : prev_balances[c].locked => client_balances[c].locked
    /\ (Handled /\ Pre.locked) =>
          /\ Post.locked
          /\ Ignored("LockedAccount")
          /\ Balances(Post) = Balances(Pre)

C3_Witness ==
    /\ Handled
    /\ Pre.locked
    /\ TxKind = "Deposit"
    /\ Positive(TxAmount)
    /\ FreshID

\* C4: handle_transaction never returns InvalidClientBalance.
C4_NeverInvalidClientBalance == last_result.kind # "InvalidClientBalance"

\* C5 as stated: a Deposit or Withdrawal with any amount whose transaction ID already
\* has a ledger entry never changes available, held or total and always yields
\* DuplicateTransactionIDInsertion.
C5_DuplicateAlwaysReported ==
    (Handled /\ IsInsertion /\ ~FreshID) =>
        /\ Balances(Post) = Balances(Pre)
        /\ Ignored("DuplicateTransactionIDInsertion")

\* C5 amended: a Deposit or Withdrawal whose transaction ID already has a ledger entry
\* never changes available, held or total; it yields LockedAccount on a locked client,
\* else NegativeAmount for a negative and ZeroAmount for a zero amount, and
\* DuplicateTransactionIDInsertion in every other case.
C5_DuplicateLaw ==
    (Handled /\ IsInsertion /\ ~FreshID) =>
        /\ Balances(Post) = Balances(Pre)
        /\ Post.transactions = Pre.transactions
        /\ Ignored(IF Pre.locked THEN "LockedAccount"
                   ELSE IF Negative(TxAmount) THEN "NegativeAmount"
                   ELSE IF Zero(TxAmount) THEN "ZeroAmount"
                   ELSE "DuplicateTransactionIDInsertion")

C5_Witness ==
    /\ Ignored("DuplicateTransactionIDInsertion")
    /\ TxKind = "Withdrawal"
    /\ Pre.transactions[last_tx.transaction_id].kind = "Deposit"
    /\ TxAmount # Pre.transactions[last_tx.transaction_id].amount

\* C6: on an unlocked client a Deposit or Withdrawal with amount a <= 0 is rejected
\* for every transaction ID, with ZeroAmount when a = 0 and NegativeAmount when a < 0,
\* and available, held, total and locked are unchanged.
C6_ZeroNegativeLaw ==
    (Handled /\ IsInsertion /\ ~Pre.locked
        /\ (Zero(TxAmount) \/ Negative(TxAmount))) =>
        /\ Ignored(IF Zero(TxAmount) THEN "ZeroAmount" ELSE "NegativeAmount")
        /\ client_balance_snapshot(Post) = client_balance_snapshot(Pre)

C6_Witness ==
    /\ Ignored("NegativeAmount")
    /\ TxKind = "Withdrawal"
    /\ ~FreshID
    /\ Pre.available # Fin(0)

\* C7: on an unlocked client a Withdrawal with positive amount a and a transaction ID
\* without ledger entry is accepted iff a <= available; it is rejected with
\* InsufficientAvailableFunds (balances unchanged) exactly when available < a, and a
\* withdrawal equal to available succeeds and leaves available at zero.
C7_WithdrawalIffSufficient ==
    (Handled /\ ~Pre.locked /\ TxKind = "Withdrawal"
        /\ Positive(TxAmount) /\ FreshID) =>
        /\ (last_result = Ok) <=>
               (F64Lt(TxAmount, Pre.available) \/ F64Eq(TxAmount, Pre.available))
        /\ Ignored("InsufficientAvailableFunds") <=> F64Lt(Pre.available, TxAmount)
        /\ Ignored("InsufficientAvailableFunds") => Balances(Post) = Balances(Pre)
        /\ F64Eq(TxAmount, Pre.available) =>
               (last_result = Ok /\ Post.available = Fin(0))

\* C8: on an unlocked client a Deposit with positive amount a and a transaction ID
\* without ledger entry returns Ok, creates a Deposit entry with amount a in state
\* Resolved, sets available' = available + a and total' = total + a, and leaves held
\* and locked unchanged.
C8_DepositAccepted ==
    (Handled /\ ~Pre.locked /\ TxKind = "Deposit"
        /\ Positive(TxAmount) /\ FreshID) =>
        /\ last_result = Ok
        /\ last_tx.transaction_id \in DOMAIN Post.transactions
        /\ Post.transactions[last_tx.transaction_id] =
               [kind |-> "Deposit", amount |-> TxAmount, state |-> "Resolved"]
        /\ Post.available = F64Add(Pre.available, TxAmount)
        /\ Post.total = F64Add(Pre.total, TxAmount)
        /\ Post.held = Pre.held
        /\ Post.locked = Pre.locked

\* C9: on an unlocked client an accepted Withdrawal of amount a creates a Withdrawal
\* entry with amount a in state Resolved, sets available' = available - a and
\* total' = total - a, and leaves held and locked unchanged.
C9_WithdrawalEffect ==
    (Handled /\ ~Pre.locked /\ TxKind = "Withdrawal"
        /\ last_result.kind # "IgnoredTransactionReason") =>
        /\ FreshID
        /\ DOMAIN Post.transactions = DOMAIN Pre.transactions \cup {last_tx.transaction_id}
        /\ \A t \in DOMAIN Pre.transactions : Post.transactions[t] = Pre.transactions[t]
        /\ Post.transactions[last_tx.transaction_id] =
               [kind |-> "Withdrawal", amount |-> TxAmount, state |-> "Resolved"]
        /\ Post.available = F64Sub(Pre.available, TxAmount)
        /\ Post.total = F64Sub(Pre.total, TxAmount)
        /\ Post.held = Pre.held
        /\ Post.locked = Pre.locked
        /\ last_result = Ok =>
              /\ {Post.available.cls, Post.total.cls, TxAmount.cls} = {"fin"}
              /\ Post.available.v = Pre.available.v - TxAmount.v
              /\ Post.total.v = Pre.total.v - TxAmount.v

C9_Witness ==
    /\ last_result = Ok
    /\ TxKind = "Withdrawal"
    /\ Pre.available = Fin(MaxAmount * SubUnits)
    /\ Post.available = Fin((MaxAmount - 1) * SubUnits)
    /\ Post.total = Post.available

\* C10: on an unlocked client a Dispute, Resolve or Chargeback that references an
\* existing entry is classified by the entry's state and the target state alone:
\* Resolved->Disputed, Disputed->Resolved and Disputed->Chargeback return Ok and set
\* the entry's state to the target; Disputed->Disputed and Resolved->Resolved return
\* NoTransactionStateChange; Resolved->Chargeback and every request on an entry in
\* state Chargeback return InvalidTransactionStateTransition; in the two rejected
\* classes the entry's state and the balances are unchanged.
C10_TransitionTable ==
    (Handled /\ ~Pre.locked /\ IsTransition /\ ~FreshID) =>
        LET from == Pre.transactions[last_tx.transaction_id].state
            to == CASE TxKind = "Dispute" -> "Disputed"
                    [] TxKind = "Resolve" -> "Resolved"
                    [] TxKind = "Chargeback" -> "Chargeback"
        IN  IF <<from, to>> \in {<<"Resolved", "Disputed">>, <<"Disputed", "Resolved">>,
                                 <<"Disputed", "Chargeback">>}
                THEN /\ last_result = Ok
                     /\ Post.transactions[last_tx.transaction_id].state = to
            ELSE /\ Ignored(IF from = to /\ from # "Chargeback" THEN "NoTransactionStateChange"
                            ELSE "InvalidTransactionStateTransition")
                 /\ Post = Pre

\* C11: on an unlocked client a Dispute, Resolve or Chargeback whose transaction ID has
\* no ledger entry for that client returns MissingTransactionID and leaves available,
\* held, total and locked (and the ledger) unchanged.
C11_MissingTransactionID ==
    (Handled /\ ~Pre.locked /\ IsTransition /\ FreshID) =>
        /\ Ignored("MissingTransactionID")
        /\ client_balance_snapshot(Post) = client_balance_snapshot(Pre)
        /\ Post.transactions = Pre.transactions

C11_Witness ==
    /\ Ignored("MissingTransactionID")
    /\ TxKind = "Chargeback"
    /\ DOMAIN Pre.transactions # {}
    /\ Pre.available = Fin(SubUnits)

\* the call was not ignored: its effect was applied (the result is Ok, or
\* InvalidClientBalance when the balance it leaves fails is_valid)
Accepted == Handled /\ last_result.kind \in {"Ok", "InvalidClientBalance"}
\* the ledger entry the last transaction refers to, before the call
PreEntry == Pre.transactions[last_tx.transaction_id]
PostEntry == Post.transactions[last_tx.transaction_id]
AllFinite(cb) == {cb.available.cls, cb.held.cls, cb.total.cls} = {"fin"}

C13_DisputeResolveRoundTrip ==
    [][(/\ Accepted
        /\ TxKind = "Dispute"
        /\ ~Pre.locked
        /\ PreEntry.state = "Resolved"
        /\ last_tx' = Transaction(last_tx.client_id, last_tx.transaction_id,
                                  "Resolve", NoAmount))
         => /\ last_result = Ok
            /\ last_result' = Ok
            /\ client_balances'[last_tx.client_id] = Pre]_vars

\* C14: an accepted Chargeback of a Disputed entry with reversal amount r sets
\* locked = true, total' = total - r and held' = held - r, leaves available unchanged
\* and sets the entry's state to Chargeback; in particular Deposit(100), Dispute,
\* Chargeback on a fresh client ends with available=0, held=0, total=0, locked=true.
C14_ChargebackEffect ==
    /\ (Accepted /\ TxKind = "Chargeback") =>
          /\ ~FreshID
          /\ PreEntry.state = "Disputed"
          /\ LET r == get_credit_or_debit_reverse_amount(PreEntry)
             IN  /\ Post.locked
                 /\ Post.total = F64Sub(Pre.total, r)
                 /\ Post.held = F64Sub(Pre.held, r)
                 /\ Post.available = Pre.available
                 /\ PostEntry = [PreEntry EXCEPT !.state = "Chargeback"]
                 /\ last_result = Ok =>
                       /\ AllFinite(Pre) /\ AllFinite(Post) /\ r.cls = "fin"
                       /\ Post.total.v = Pre.total.v - r.v
                       /\ Post.held.v = Pre.held.v - r.v
    \* Deposit(a), Dispute, Chargeback as the first three calls on a fresh client
    /\ (steps = 3 /\ last_result = Ok /\ TxKind = "Chargeback") =>
          /\ PreEntry.kind = "Deposit"
          /\ client_balance_snapshot(Post) =
                 [client_id |-> last_tx.client_id, available |-> Fin(0), held |-> Fin(0),
                  total |-> Fin(0), locked |-> TRUE]
    \* the same three calls with the amount 100.0
    /\ test_dispute_chargeback_deposit =
           <<Ok, Ok, Ok, [client_id |-> 1, available |-> Fin(0), held |-> Fin(0),
                          total |-> Fin(0), locked |-> TRUE]>>

C14_Witness ==
    /\ steps = 3
    /\ last_result = Ok
    /\ TxKind = "Chargeback"
    /\ PreEntry = [kind |-> "Deposit", amount |-> Fin(MaxAmount * SubUnits),
                   state |-> "Disputed"]
    /\ Pre.held = Fin(MaxAmount * SubUnits)
    /\ Post.locked

\* the Dispute of the last transaction's entry is on record with the result `kind`
DisputeOnRecord(kind) ==
    <<last_tx.client_id, last_tx.transaction_id, kind>> \in open_disputes
\* every accepted Chargeback(id) is preceded by an accepted Dispute(id) of the same
\* client with no accepted Resolve(id) between them ("accepted" as "not ignored", and
\* as "returned Ok")
ChargebackFollowsDispute ==
    (Accepted /\ TxKind = "Chargeback") =>
        /\ DisputeOnRecord("Ok") \/ DisputeOnRecord("InvalidClientBalance")
        /\ last_result = Ok => DisputeOnRecord("Ok")
        /\ ~FreshID
        /\ PreEntry.state = "Disputed"
ChargebackOfResolved ==
    Handled /\ TxKind = "Chargeback" /\ ~FreshID /\ PreEntry.state = "Resolved"

\* C15 as stated: a resolved entry cannot be charged back directly: each accepted
\* Chargeback(id) for a client is preceded by an accepted Dispute(id) for the same
\* client with no accepted Resolve(id) between them, and a Chargeback of an entry in
\* state Resolved is always rejected with InvalidTransactionStateTransition without
\* locking the account.
C15_ResolvedAlwaysInvalidTransition ==
    /\ ChargebackFollowsDispute
    /\ ChargebackOfResolved =>
          /\ Ignored("InvalidTransactionStateTransition")
          /\ Post.locked = Pre.locked

\* C15 amended: each accepted Chargeback(id) for a client is preceded by an accepted
\* Dispute(id) for the same client with no accepted Resolve(id) between them, and a
\* Chargeback of an entry in state Resolved is always rejected, with
\* InvalidTransactionStateTransition on an unlocked client and with LockedAccount on a
\* locked one, and leaves the Client Balance (its locked flag included) as it was.
C15_NoDirectChargeback ==
    /\ ChargebackFollowsDispute
    /\ ChargebackOfResolved =>
          /\ Ignored(IF Pre.locked THEN "LockedAccount"
                     ELSE "InvalidTransactionStateTransition")
          /\ Post = Pre

\* a Chargeback of a Resolved entry that was disputed and resolved before
C15_Witness ==
    /\ ChargebackOfResolved
    /\ Ignored("InvalidTransactionStateTransition")
    /\ ~Post.locked
    /\ steps = 4
    /\ Post.available = Fin(MaxAmount * SubUnits)
    /\ open_disputes = {}

\* C16: a client's locked flag changes from false to true only in a step that is an
\* accepted Chargeback (of that client); for any stream that contains only Deposit,
\* Withdrawal, Dispute and Resolve transactions, the client is unlocked after every
\* step.
C16_LockedOnlyByChargeback ==
    /\ \A c \in DOMAIN client_balances :
          (~entry_or_insert(prev_balances, c).locked /\ client_balances[c].locked) =>
              /\ Accepted
              /\ TxKind = "Chargeback"
              /\ last_tx.client_id = c
    /\ ~chargeback_sent => \A c \in DOMAIN client_balances : ~client_balances[c].locked

C16_Witness ==
    /\ Handled
    /\ ~Pre.locked
    /\ Post.locked
    /\ PreEntry.kind = "Withdrawal"
    /\ last_result = Ok

\* C17: whenever ClientBalance::handle_transaction returns Ok, the tuple (available,
\* held, total, locked) after the call differs from the tuple before the call;
\* together with the ignored-unchanged rule, a call returns Ok if and only if it
\* changed that tuple.
C17_OkIffChanged ==
    Handled =>
        (last_result = Ok <=> client_balance_snapshot(Post) # client_balance_snapshot(Pre))

Zeros(cb) == cb.available = Fin(0) /\ cb.held = Fin(0) /\ cb.total = Fin(0)
\* the last call was a Chargeback, on an unlocked client with available = held =
\* total = 0, of a Disputed entry of the given kind
ChargebackAtZero(kind) ==
    /\ Handled
    /\ TxKind = "Chargeback"
    /\ ~Pre.locked
    /\ Zeros(Pre)
    /\ ~FreshID
    /\ PreEntry.kind = kind
    /\ PreEntry.state = "Disputed"

\* C18: in a state where available = held = total = 0, reached by repeating
\* Deposit(a), Withdrawal(a), Dispute(withdrawal), Dispute(deposit) with fresh IDs, a
\* Chargeback of a Disputed Deposit entry of amount a is accepted, locks the account,
\* and leaves available = 0 with held and total both negative (equal to -a).
C18_ChargebackDepositAtZero ==
    /\ ChargebackAtZero("Deposit") =>
          /\ last_result = Ok
          /\ Post.locked
          /\ Post.available = Fin(0)
          /\ Positive(PreEntry.amount)
          /\ Post.held = F64Neg(PreEntry.amount)
          /\ Post.total = F64Neg(PreEntry.amount)
          /\ Negative(Post.held) /\ Negative(Post.total)
          /\ PostEntry.state = "Chargeback"
    \* the test's stream with the amounts 1.0 and 999.9999
    /\ test_deposits_withdrawal_disputes_chargeback_withdrawal =
           <<TRUE,
             [client_id |-> 1, available |-> Fin(0), held |-> Fin(0), total |-> Fin(0),
              locked |-> FALSE],
             Ok,
             [client_id |-> 1, available |-> Fin(0),
              held |-> F64Neg(proptest_amounts[Len(proptest_amounts)]),
              total |-> F64Neg(proptest_amounts[Len(proptest_amounts)]),
              locked |-> TRUE]>>

\* Deposit(a), Withdrawal(a), Dispute(withdrawal), Dispute(deposit), Chargeback(deposit)
C18_Witness ==
    /\ ChargebackAtZero("Deposit")
    /\ steps = 5
    /\ PreEntry.amount = Fin(MaxAmount * SubUnits)
    /\ \E t \in DOMAIN Pre.transactions :
          Pre.transactions[t] = [kind |-> "Withdrawal", amount |-> PreEntry.amount,
                                 state |-> "Disputed"]
    /\ Post.held = Fin(0 - MaxAmount * SubUnits)
    /\ Post.locked

\* C19: in a state where available = held = total = 0, reached by repeating
\* Deposit(a), Withdrawal(a), Dispute(withdrawal), Dispute(deposit) with fresh IDs, a
\* Chargeback of a Disputed Withdrawal entry of amount a is accepted, locks the
\* account, and leaves available = 0 with held and total not negative (both equal
\* to +a).
C19_ChargebackWithdrawalAtZero ==
    /\ ChargebackAtZero("Withdrawal") =>
          /\ last_result = Ok
          /\ Post.locked
          /\ Post.available = Fin(0)
          /\ Positive(PreEntry.amount)
          /\ Post.held = PreEntry.amount
          /\ Post.total = PreEntry.amount
          /\ ~is_negative(Post.held) /\ ~is_negative(Post.total)
          /\ PostEntry.state = "Chargeback"
    \* the test's stream with the amounts 1.0 and 999.9999
    /\ test_deposits_withdrawal_disputes_chargeback_deposit =
           <<TRUE,
             [client_id |-> 1, available |-> Fin(0), held |-> Fin(0), total |-> Fin(0),
              locked |-> FALSE],
             Ok,
             [client_id |-> 1, available |-> Fin(0),
              held |-> proptest_amounts[Len(proptest_amounts)],
              total |-> proptest_amounts[Len(proptest_amounts)],
              locked |-> TRUE]>>

\* Deposit(a), Withdrawal(a), Dispute(withdrawal), Dispute(deposit),
\* Chargeback(withdrawal)
C19_Witness ==
    /\ ChargebackAtZero("Withdrawal")
    /\ steps = 5
    /\ PreEntry.amount = Fin(MaxAmount * SubUnits)
    /\ \E t \in DOMAIN Pre.transactions :
          Pre.transactions[t] = [kind |-> "Deposit", amount |-> PreEntry.amount,
                                 state |-> "Disputed"]
    /\ Post.held = Fin(MaxAmount * SubUnits)
    /\ Post.total = Fin(MaxAmount * SubUnits)
    /\ Post.locked

\* C20: disputing a withdrawal and later charging that dispute back can drive held and
\* total negative: there is a reachable transaction sequence for one client in which
\* an accepted Withdrawal is disputed, that dispute is charged back, and held < 0 and
\* total < 0 hold in the state after the Chargeback (the state is C20_Witness). The
\* Chargeback of a disputed Withdrawal of amount a itself adds a to held and to total,
\* so both are negative after it exactly when they were below -a before it.
C20_ChargebackOfWithdrawal ==
    (Accepted /\ TxKind = "Chargeback" /\ ~FreshID /\ PreEntry.kind = "Withdrawal") =>
        /\ DisputeOnRecord("Ok") \/ DisputeOnRecord("InvalidClientBalance")
        /\ Post.locked
        /\ Post.available = Pre.available
        /\ Post.held = F64Add(Pre.held, PreEntry.amount)
        /\ Post.total = F64Add(Pre.total, PreEntry.amount)
        /\ last_result = Ok =>
              /\ Negative(Post.held) <=> F64Lt(Pre.held, F64Neg(PreEntry.amount))
              /\ Negative(Post.total) <=> F64Lt(Pre.total, F64Neg(PreEntry.amount))

\* after the Chargeback of a disputed Withdrawal, held < 0 and total < 0
C20_Witness ==
    /\ last_result = Ok
    /\ TxKind = "Chargeback"
    /\ PreEntry.kind = "Withdrawal"
    /\ PreEntry.state = "Disputed"
    /\ DisputeOnRecord("Ok")
    /\ Post.locked
    /\ Negative(Post.held)
    /\ Negative(Post.total)

\* the transactions of a stream that carry the client ID c, in stream order
for_client(txs, c) == SelectSeq(txs, LAMBDA tx : tx.client_id = c)
\* the Client Balance that ClientBalance::handle_transaction leaves after the calls txs
RECURSIVE handle_all(_, _)
handle_all(cb, txs) ==
    IF txs = << >> THEN cb
    ELSE handle_all(ClientBalance_handle_transaction(cb, Head(txs)).cb, Tail(txs))
\* a Client Balance with available = held = total = 0, unlocked, without entries
FreshClientBalance(c) ==
    [client_id |-> c, available |-> Fin(0), held |-> Fin(0), total |-> Fin(0),
     locked |-> FALSE, transactions |-> << >>]
\* every client of the stream has the balance its own transactions, applied in order
\* to a fresh Client Balance, leave; no other client is in the registry
BalanceBySubsequence ==
    \A c \in PairClientIDs :
        LET own == for_client(stream, c)
        IN  IF own = << >> THEN c \notin DOMAIN client_balances
            ELSE /\ c \in DOMAIN client_balances
                 /\ client_balances[c] = handle_all(FreshClientBalance(c), own)

\* C21: Atm::handle_transaction applies the first transaction that references a client
\* ID to a freshly created Client Balance with available = held = total = 0, locked =
\* false and no ledger entries, and applies every later transaction for that client ID
\* to the state left by the earlier ones: the registry never resets, replaces or
\* removes an existing Client Balance.
C21_RegistryKeepsBalances ==
    /\ BalanceBySubsequence
    /\ DOMAIN prev_balances \subseteq DOMAIN client_balances
    /\ Handled =>
          LET c == last_tx.client_id
              before == IF c \in DOMAIN prev_balances THEN prev_balances[c]
                        ELSE FreshClientBalance(c)
              handled == ClientBalance_handle_transaction(before, last_tx)
          IN  /\ client_balances[c] = handled.cb
              /\ last_result = handled.res
              /\ (c \in DOMAIN prev_balances) = (for_client(stream, c) # <<last_tx>>)

\* the first transaction of client 2 arrives after client 1 was charged back, and a
\* second transaction of client 1 was applied to what its first one left
C21_Witness ==
    /\ steps = PairSteps
    /\ last_tx.client_id = 2
    /\ 2 \notin DOMAIN prev_balances
    /\ last_result = Ok
    /\ prev_balances[1].locked
    /\ client_balances[1].locked
    /\ client_balances[2].available = Fin(MaxAmount * SubUnits)

\* the results ClientBalance::handle_transaction returns for the calls txs, in order
RECURSIVE results_of(_, _)
results_of(cb, txs) ==
    IF txs = << >> THEN << >>
    ELSE LET handled == ClientBalance_handle_transaction(cb, Head(txs))
         IN  <<handled.res>> \o results_of(handled.cb, Tail(txs))
\* the distinct client IDs of the transactions handled so far
StreamClients == {stream[i].client_id : i \in DOMAIN stream}
\* every transaction of client c was ignored
AllIgnored(c) ==
    LET results == results_of(FreshClientBalance(c), for_client(stream, c))
    IN  \A i \in DOMAIN results : results[i].kind = "IgnoredTransactionReason"

\* C22: at any point, Atm::accounts yields exactly one snapshot per distinct client_id
\* of the transactions handled so far (including clients whose every transaction was
\* ignored, which appear with zero balances), and no others; each snapshot's client,
\* available, held, total and locked equal that client's current state.
C22_AccountsPerClient ==
    /\ accounts =
           {[client_id |-> c, available |-> client_balances[c].available,
             held |-> client_balances[c].held, total |-> client_balances[c].total,
             locked |-> client_balances[c].locked] : c \in StreamClients}
    /\ Cardinality(accounts) = Cardinality(StreamClients)
    /\ \A c \in StreamClients :
          AllIgnored(c) =>
              [client_id |-> c, available |-> Fin(0), held |-> Fin(0), total |-> Fin(0),
               locked |-> FALSE] \in accounts

\* client 2 had two transactions, both ignored; client 1 holds a disputed deposit
C22_Witness ==
    /\ steps = PairSteps
    /\ StreamClients = PairClientIDs
    /\ Len(for_client(stream, 2)) = 2
    /\ AllIgnored(2)
    /\ ~AllIgnored(1)
    /\ [client_id |-> 2, available |-> Fin(0), held |-> Fin(0), total |-> Fin(0),
        locked |-> FALSE] \in accounts
    /\ [client_id |-> 1, available |-> Fin(0), held |-> Fin(MaxAmount * SubUnits),
        total |-> Fin(MaxAmount * SubUnits), locked |-> FALSE] \in accounts

\* C23: Atm::handle_transaction for a transaction with client_id c leaves the balance
\* fields, lock flag and ledger entries of every other client in the registry
\* unchanged, whatever the transaction type, ID and result.
C23_OtherClientsUnchanged ==
    Handled =>
        \A c \in DOMAIN prev_balances \ {last_tx.client_id} :
            /\ c \in DOMAIN client_balances
            /\ client_balances[c] = prev_balances[c]

\* client 2 is charged back while client 1 holds a deposit with the same transaction ID
C23_Witness ==
    /\ last_tx.client_id = 2
    /\ TxKind = "Chargeback"
    /\ last_result = Ok
    /\ client_balances[2].locked
    /\ 1 \in DOMAIN prev_balances
    /\ last_tx.transaction_id \in DOMAIN prev_balances[1].transactions
    /\ client_balances[1].available = Fin(MaxAmount * SubUnits)
    /\ ~client_balances[1].locked

\* the snapshot of every client of the stream is the snapshot its own transactions,
\* applied in order to a fresh Client Balance, leave
SnapshotBySubsequence ==
    \A c \in StreamClients :
        client_balance_snapshot(client_balances[c]) =
            client_balance_snapshot(handle_all(FreshClientBalance(c), for_client(stream, c)))

\* the registry Atm::handle_transaction leaves after the calls txs
RECURSIVE Atm_handle_all(_, _)
Atm_handle_all(balances, txs) ==
    IF txs = << >> THEN balances
    ELSE Atm_handle_all(Atm_handled(balances, Head(txs))[1], Tail(txs))

\* two registries hold the same clients with the same Client Balances
SameRegistry(left, right) ==
    /\ DOMAIN left = DOMAIN right
    /\ \A c \in DOMAIN left : left[c] = right[c]

\* the last two transactions of the stream, t1 then t2, and the registry before them
T1 == stream[Len(stream) - 1]
T2 == stream[Len(stream)]
RegistryBeforePair == Atm_handle_all(<< >>, SubSeq(stream, 1, Len(stream) - 2))
\* registry and result of t1, then of t2 after t1; of t2, then of t1 after t2
T1Alone == Atm_handled(RegistryBeforePair, T1)
T1ThenT2 == Atm_handled(T1Alone[1], T2)
T2Alone == Atm_handled(RegistryBeforePair, T2)
T2ThenT1 == Atm_handled(T2Alone[1], T1)

\* C24: transactions for different clients are independent: for the registry state
\* before two consecutive transactions t1, t2 with different client_id, applying t2
\* then t1 yields the same registry state and the same two results as applying t1 then
\* t2; hence the snapshot of a client depends only on the subsequence of the stream
\* that carries its client_id.
C24_ClientsIndependent ==
    /\ SnapshotBySubsequence
    /\ Len(stream) >= 2 =>
          /\ SameRegistry(prev_balances, T1Alone[1])
          /\ SameRegistry(client_balances, T1ThenT2[1])
          /\ last_result = T1ThenT2[2]
          /\ T1.client_id # T2.client_id =>
                /\ SameRegistry(T2ThenT1[1], T1ThenT2[1])
                /\ T2ThenT1[2] = T1Alone[2]
                /\ T2Alone[2] = T1ThenT2[2]

\* client 1 was charged back and locked, then client 2 deposited
C24_Witness ==
    /\ Len(stream) = PairSteps
    /\ stream[PairSteps - 1].client_id = 1
    /\ stream[PairSteps - 1].transaction_type.kind = "Chargeback"
    /\ client_balances[1].locked
    /\ last_tx.client_id = 2
    /\ TxKind = "Deposit"
    /\ last_result = Ok
    /\ client_balances[2].available = Fin(MaxAmount * SubUnits)

\* C25: a ledger entry is never overwritten or removed after creation: an accepted
\* Deposit or Withdrawal with ID t creates the client's entry t with its kind and its
\* amount, and every entry of every client is still in that client's ledger, with the
\* same kind and the same amount, after every later transaction.
C25_EntryNeverOverwritten ==
    /\ \A c \in DOMAIN prev_balances :
          \A t \in DOMAIN prev_balances[c].transactions :
              /\ t \in DOMAIN client_balances[c].transactions
              /\ client_balances[c].transactions[t].kind = prev_balances[c].transactions[t].kind
              /\ client_balances[c].transactions[t].amount = prev_balances[c].transactions[t].amount
    /\ (Accepted /\ IsInsertion) =>
          /\ last_tx.transaction_id \in DOMAIN Post.transactions
          /\ PostEntry.kind = TxKind
          /\ PostEntry.amount = TxAmount

\* a Withdrawal entry is disputed next to a Deposit entry: both keep kind and amount
C25_Witness ==
    /\ TxKind = "Dispute"
    /\ last_result = Ok
    /\ PreEntry.kind = "Withdrawal"
    /\ PostEntry = [PreEntry EXCEPT !.state = "Disputed"]
    /\ \E t \in DOMAIN Pre.transactions :
          /\ t # last_tx.transaction_id
          /\ Pre.transactions[t].kind = "Deposit"
          /\ Post.transactions[t] = Pre.transactions[t]

RECURSIVE ledger_sum(_, _, _)
ledger_sum(transactions, ids, kind) ==
    IF ids = {} THEN Fin(0)
    ELSE LET t == CHOOSE id \in ids : TRUE
             rest == ledger_sum(transactions, ids \ {t}, kind)
         IN  IF transactions[t].kind = kind THEN F64Add(rest, transactions[t].amount)
             ELSE rest

\* C27: for a client that receives only Deposit and Withdrawal transactions, after
\* every step held = 0, available = total = (sum of accepted deposit amounts) - (sum
\* of accepted withdrawal amounts), and available >= 0.
C27_DepositsAndWithdrawalsOnly ==
    \A c \in DOMAIN client_balances :
        LET cb == client_balances[c]
            ids == DOMAIN cb.transactions
            deposits == ledger_sum(cb.transactions, ids, "Deposit")
            withdrawals == ledger_sum(cb.transactions, ids, "Withdrawal")
        IN  /\ F64Eq(cb.held, Fin(0))
            /\ F64Eq(cb.available, cb.total)
            /\ F64Eq(cb.available, F64Sub(deposits, withdrawals))
            /\ ~F64Lt(cb.available, Fin(0))
            /\ cb.available.cls # "nan"

\* C28: every error returned by handle_transaction (IgnoredTransactionReason or
\* InvalidClientBalance) carries the transaction_id of the transaction that was just
\* submitted, not the ID of any earlier transaction or ledger entry.
C28_ErrorCarriesSubmittedID ==
    (Handled /\ last_result # Ok) =>
        /\ last_result.kind \in {"IgnoredTransactionReason", "InvalidClientBalance"}
        /\ last_result.transaction_id = last_tx.transaction_id

\* a Dispute of an ID that is not in the ledger is ignored under its own ID, while the
\* ledger holds an entry with another ID
C28_Witness ==
    /\ TxKind = "Dispute"
    /\ last_result.kind = "IgnoredTransactionReason"
    /\ last_result.reason = "MissingTransactionID"
    /\ last_result.transaction_id = last_tx.transaction_id
    /\ DOMAIN Pre.transactions # {}
    /\ last_tx.transaction_id \notin DOMAIN Pre.transactions

\* the driver has handed exactly the records read so far that deserialize, once each
\* and in the order of the input, and stops reading only at the end of the input
DriverAppliedRecordsRead ==
    /\ cursor \in 0..Len(records)
    /\ stream = deserialize_flatten(SubSeq(records, 1, cursor))
    /\ steps = Len(stream)
    /\ SameRegistry(client_balances, Atm_handle_all(NoBalances, stream))
    /\ pc # "read" => cursor = Len(records)
    /\ pc = "done" => output = accounts

\* C29: the batch driver hands every successfully parsed record to
\* Atm::handle_transaction exactly once, in stream order, and an error result of
\* either class for one record never stops or retries processing: over any finite
\* stream every later record is still applied and the driver reaches the snapshot
\* output phase.
C29_DriverRunsToCompletion ==
    /\ []DriverAppliedRecordsRead
    /\ <>(pc = "write")

\* the first record returned InvalidClientBalance, the second was ignored, the third
\* was applied, and the driver is in the output phase
C29_Witness ==
    /\ pc = "write"
    /\ Len(stream) = MainRecords
    /\ results_of(FreshClientBalance(1), stream)[1].kind = "InvalidClientBalance"
    /\ results_of(FreshClientBalance(1), stream)[2].kind = "IgnoredTransactionReason"
    /\ TxKind = "Dispute"
    /\ last_tx = stream[MainRecords]
    /\ Post.transactions[last_tx.transaction_id].state = "Disputed"

\* a record whose type string is none of the five types, or a deposit or withdrawal
\* record without an amount
Malformed(record) ==
    \/ record[1] \notin {"deposit", "withdrawal", "dispute", "resolve", "chargeback"}
    \/ record[1] \in {"deposit", "withdrawal"} /\ record[4] = NoAmount

\* the records read so far that are not malformed, in input order
WellFormedRead == SelectSeq(SubSeq(records, 1, cursor), LAMBDA record : ~Malformed(record))

\* C30: a record whose type string is not one of deposit, withdrawal, dispute, resolve,
\* chargeback, or a deposit/withdrawal record with no amount, fails to parse and is
\* dropped before reaching the registry (no client is created for it and no state
\* changes), while a dispute/resolve/chargeback record parses whether or not an amount
\* is present; records after a dropped one are still processed.
C30_MalformedRecordsDropped ==
    /\ \A i \in 1..cursor :
          LET record == records[i]
              tx == Transaction_deserialize(record)
          IN  /\ Malformed(record) => tx = NoTransaction
              /\ record[1] \in {"dispute", "resolve", "chargeback"} =>
                    /\ tx.transaction_type.kind \in {"Dispute", "Resolve", "Chargeback"}
                    /\ tx.transaction_type.amount = NoAmount
                    /\ tx.client_id = record[2]
                    /\ tx.transaction_id = record[3]
    /\ Len(stream) = Len(WellFormedRead)
    /\ \A k \in 1..Len(stream) :
          /\ stream[k].client_id = WellFormedRead[k][2]
          /\ stream[k].transaction_id = WellFormedRead[k][3]
    /\ steps = Len(WellFormedRead)
    /\ DOMAIN client_balances = {WellFormedRead[k][2] : k \in 1..Len(WellFormedRead)}
    /\ SameRegistry(Atm_handle_all(NoBalances, stream), client_balances)

\* a deposit record without amount and a record of unknown type were dropped, and the
\* dispute record with an amount after them was handed to the Atm
C30_Witness ==
    /\ cursor = MainRecords
    /\ records[1] = <<"deposit", 1, 1, NoAmount>>
    /\ records[2][1] = "transfer"
    /\ records[3] = <<"dispute", 1, 1, Fin(MaxAmount * SubUnits - 1)>>
    /\ stream = <<Transaction(1, 1, "Dispute", NoAmount)>>
    /\ last_tx = stream[1]
    /\ DOMAIN client_balances = {1}

\* C31: when several rejection conditions hold for the same transaction, the reported
\* reason follows a fixed precedence: LockedAccount first; then for a Deposit or
\* Withdrawal NegativeAmount or ZeroAmount before DuplicateTransactionIDInsertion
\* before InsufficientAvailableFunds; and for a Dispute, Resolve or Chargeback
\* MissingTransactionID before the reasons of the transition table.
C31_RejectionPrecedence ==
    Handled =>
        /\ Pre.locked => Ignored("LockedAccount")
        /\ (~Pre.locked /\ IsInsertion) =>
              /\ Negative(TxAmount) => Ignored("NegativeAmount")
              /\ Zero(TxAmount) => Ignored("ZeroAmount")
              /\ (~Negative(TxAmount) /\ ~Zero(TxAmount) /\ ~FreshID)
                    => Ignored("DuplicateTransactionIDInsertion")
              /\ (~Negative(TxAmount) /\ ~Zero(TxAmount) /\ FreshID
                    /\ TxKind = "Withdrawal" /\ F64Lt(Pre.available, TxAmount))
                    => Ignored("InsufficientAvailableFunds")
        /\ (~Pre.locked /\ IsTransition /\ FreshID) => Ignored("MissingTransactionID")
        /\ (~Pre.locked /\ IsTransition /\ ~FreshID) =>
              last_result.reason \notin {"MissingTransactionID", "LockedAccount"}

\* a Withdrawal with an already used ID and an amount above available is reported as
\* a duplicate
C31_Witness ==
    /\ TxKind = "Withdrawal"
    /\ ~Pre.locked
    /\ ~FreshID
    /\ Positive(TxAmount)
    /\ F64Lt(Pre.available, TxAmount)
    /\ Ignored("DuplicateTransactionIDInsertion")

\* r(e): +amount for a Deposit entry, -amount for a Withdrawal entry
signed_amount(e) == IF e.kind = "Deposit" THEN e.amount ELSE F64Neg(e.amount)

\* the f64 sum of r(e) over the entries with an ID in ids and a state in states
RECURSIVE signed_sum(_, _, _)
signed_sum(transactions, ids, states) ==
    IF ids = {} THEN Fin(0)
    ELSE LET t == CHOOSE id \in ids : TRUE
             rest == signed_sum(transactions, ids \ {t}, states)
         IN  IF transactions[t].state \in states
                 THEN F64Add(rest, signed_amount(transactions[t]))
             ELSE rest

\* C32: in every reachable client state the balances are determined by the ledger:
\* available equals the sum of r(e) over the entries in state Resolved, held the sum
\* over the entries in state Disputed, and total the sum over the entries in state
\* Resolved or Disputed; entries in state Chargeback contribute to none.
C32_BalancesDeterminedByLedger ==
    \A c \in DOMAIN client_balances :
        LET cb == client_balances[c]
            ids == DOMAIN cb.transactions
        IN  /\ F64Eq(cb.available, signed_sum(cb.transactions, ids, {"Resolved"}))
            /\ F64Eq(cb.held, signed_sum(cb.transactions, ids, {"Disputed"}))
            /\ F64Eq(cb.total, signed_sum(cb.transactions, ids, {"Resolved", "Disputed"}))

\* the last call was ignored
WasIgnored == Handled /\ last_result.kind = "IgnoredTransactionReason"
\* the result of a Dispute, Resolve or Chargeback of the last transaction's ID, sent
\* to the client right after the last call
TransitionAfter(kind) ==
    ClientBalance_handle_transaction(
        Post, Transaction(last_tx.client_id, last_tx.transaction_id, kind, NoAmount)).res
\* a Deposit of a positive amount with the last transaction's ID, sent right after
DepositAfter ==
    ClientBalance_handle_transaction(
        Post, Transaction(last_tx.client_id, last_tx.transaction_id, "Deposit",
                          AmountNew(Fin(MaxAmount * SubUnits))))

\* C33 as stated: an ignored transaction leaves the ledger and the balances unchanged,
\* and after a Deposit or Withdrawal rejected for any reason a Dispute, Resolve or
\* Chargeback on that ID yields MissingTransactionID.
C33_RejectedForAnyReasonIsMissing ==
    WasIgnored =>
        /\ Post = Pre
        /\ IsInsertion =>
              \A kind \in {"Dispute", "Resolve", "Chargeback"} :
                  TransitionAfter(kind) =
                      IgnoredTransactionReason(last_tx.transaction_id, "MissingTransactionID")

\* C33: an ignored transaction leaves the client's ledger unchanged as well as its
\* balances: no entry is created and no entry's state changes. A Deposit or
\* Withdrawal that is rejected on an unlocked client with an ID that has no entry does
\* not reserve the ID: a Dispute, Resolve or Chargeback on that ID yields
\* MissingTransactionID and a later Deposit with the same ID is accepted, as the
\* Withdrawal of test_dispute_resolve_deposit_with_withdrawal is after the Resolve.
C33_IgnoredLeavesLedger ==
    /\ WasIgnored =>
          /\ Post = Pre
          /\ (IsInsertion /\ FreshID /\ ~Pre.locked) =>
                /\ last_tx.transaction_id \notin DOMAIN Post.transactions
                /\ \A kind \in {"Dispute", "Resolve", "Chargeback"} :
                      TransitionAfter(kind) =
                          IgnoredTransactionReason(last_tx.transaction_id, "MissingTransactionID")
                /\ DepositAfter.res.kind # "IgnoredTransactionReason"
                /\ last_tx.transaction_id \in DOMAIN DepositAfter.cb.transactions
    /\ test_dispute_resolve_deposit_with_withdrawal =
          <<Ok, Ok, IgnoredTransactionReason(1, "InsufficientAvailableFunds"), Ok, Ok,
            {0}, {0, 1}>>

\* a Withdrawal with a new ID is rejected for insufficient funds while a dispute is
\* open, and the ledger is as before
C33_Witness ==
    /\ TxKind = "Withdrawal"
    /\ Ignored("InsufficientAvailableFunds")
    /\ FreshID
    /\ \E t \in DOMAIN Pre.transactions : Pre.transactions[t].state = "Disputed"
    /\ Post = Pre
    /\ last_tx.transaction_id \notin DOMAIN Post.transactions

\* the ID of the last transaction has no entry for its client and has one for another
UsedByOtherClientOnly ==
    /\ FreshID
    /\ \E a \in DOMAIN prev_balances \ {last_tx.client_id} :
          last_tx.transaction_id \in DOMAIN prev_balances[a].transactions
\* no client but the last transaction's own has changed
OthersAsBefore ==
    \A a \in DOMAIN prev_balances \ {last_tx.client_id} :
        client_balances[a] = prev_balances[a]

charged_back(cb) == {t \in DOMAIN cb.transactions : cb.transactions[t].state = "Chargeback"}

\* C35: in every reachable state, a client is locked if and only if exactly one of its
\* ledger entries is in state Chargeback; an unlocked client has no entry in state
\* Chargeback and no client ever has two.
C35_LockedIffOneChargeback ==
    \A c \in DOMAIN client_balances :
        LET cb == client_balances[c]
        IN  /\ cb.locked <=> Cardinality(charged_back(cb)) = 1
            /\ ~cb.locked => charged_back(cb) = {}
            /\ Cardinality(charged_back(cb)) <= 1

\* a locked client with one entry in state Chargeback refuses the Chargeback of its
\* second, disputed entry
C35_Witness ==
    /\ TxKind = "Chargeback"
    /\ Ignored("LockedAccount")
    /\ Post.locked
    /\ last_tx.transaction_id \in DOMAIN Post.transactions
    /\ PostEntry.state = "Disputed"
    /\ Cardinality(charged_back(Post)) = 1

\* C36: disputing a withdrawal makes its amount withdrawable again on an unlocked
\* account: after Deposit(a), Withdrawal(a), Dispute(withdrawal) the state is
\* available = a, held = -a, total = 0, and a further Withdrawal(a) with a fresh ID is
\* accepted, leaving available = 0, held = -a, total = -a with locked = false.
C36_DisputedWithdrawalWithdrawableAgain ==
    \* the Dispute of a Withdrawal of a, after Deposit(a) and Withdrawal(a)
    /\ (Handled /\ TxKind = "Dispute" /\ last_result = Ok /\ PreEntry.kind = "Withdrawal"
            /\ Zeros(Pre)) =>
          /\ Positive(PreEntry.amount)
          /\ Balances(Post) = <<PreEntry.amount, F64Neg(PreEntry.amount), Fin(0)>>
          /\ ~Post.locked
    \* the further Withdrawal(a) in that state
    /\ (Handled /\ TxKind = "Withdrawal" /\ FreshID /\ ~Pre.locked /\ Positive(TxAmount)
            /\ Balances(Pre) = <<TxAmount, F64Neg(TxAmount), Fin(0)>>) =>
          /\ last_result = Ok
          /\ Balances(Post) = <<Fin(0), F64Neg(TxAmount), F64Neg(TxAmount)>>
          /\ Negative(Post.held) /\ Negative(Post.total)
          /\ ~Post.locked
          /\ PostEntry = withdrawal(TxAmount)
    \* the test's stream with the amount 100.0, and a Withdrawal(100.0) with ID 2
    /\ LET a == Fin(100 * AMOUNT_PRECISION_EXP * SubUnits)
           disputed == test_deposit_withdrawal_dispute
           again == ClientBalance_handle_transaction(
                        disputed.cb, Transaction(1, 2, "Withdrawal", a))
       IN  /\ disputed.res
           /\ client_balance_snapshot(disputed.cb) =
                  [client_id |-> 1, available |-> a, held |-> F64Neg(a), total |-> Fin(0),
                   locked |-> FALSE]
           /\ again.res = Ok
           /\ client_balance_snapshot(again.cb) =
                  [client_id |-> 1, available |-> Fin(0), held |-> F64Neg(a),
                   total |-> F64Neg(a), locked |-> FALSE]

\* Deposit(a), Withdrawal(a), Dispute(withdrawal), Withdrawal(a) with a fresh ID
C36_Witness ==
    /\ steps = 4
    /\ TxKind = "Withdrawal"
    /\ last_result = Ok
    /\ Balances(Pre) = <<TxAmount, F64Neg(TxAmount), Fin(0)>>
    /\ Balances(Post) = <<Fin(0), F64Neg(TxAmount), F64Neg(TxAmount)>>
    /\ ~Post.locked
    /\ \E t \in DOMAIN Pre.transactions :
          Pre.transactions[t] = [withdrawal(TxAmount) EXCEPT !.state = "Disputed"]

FiniteTriple(cb) == cb.available.cls = "fin" /\ cb.held.cls = "fin" /\ cb.total.cls = "fin"

====
